---- MODULE Spec2Model ----
(***************************************************************************)
(* Strapi documentation MCP server (index.ts, the revision with the        *)
(* response adapter): the Kapa HTTP client, the response normalizer        *)
(* adaptKapaResponse, the three tool handlers plus test_kapa_connection,   *)
(* the CallTool dispatcher and the process start-up.                       *)
(*                                                                         *)
(* Text is modelled as a sequence of chunks (strings); a JavaScript        *)
(* string is the concatenation of its chunks.  Chunks that the code        *)
(* inspects character by character (" " and "|" in titles, the "http"      *)
(* prefix of a url) are chunks of their own.  The emoji of the source's    *)
(* literals are left out of the chunks (the module is ASCII).              *)
(***************************************************************************)
EXTENDS Integers, Sequences, FiniteSets, TLC

VARIABLES env, phase, exitCause, test, req

vars == <<env, phase, exitCause, test, req>>

(***************************************************************************)
(* Bounds of the model.                                                    *)
(***************************************************************************)
MaxSources == 2
MaxInFlight == 2

(***************************************************************************)
(* JavaScript values: a tag and, for strings and numbers, the text.        *)
(***************************************************************************)
Undef == [t |-> "undefined", v |-> <<>>]
Null == [t |-> "null", v |-> <<>>]
Str(s) == [t |-> "string", v |-> s]
Num(s) == [t |-> "number", v |-> <<s>>]
True == [t |-> "boolean", v |-> <<"true">>]
False == [t |-> "boolean", v |-> <<"false">>]

\* JavaScript truthiness: undefined, null, "", 0 and false are falsy.
Truthy(x) ==
    CASE x.t = "undefined" -> FALSE
      [] x.t = "null" -> FALSE
      [] x.t = "string" -> x.v # <<>>
      [] x.t = "number" -> x.v # <<"0">>
      [] x.t = "boolean" -> x.v = <<"true">>
      [] OTHER -> TRUE

\* a || b
Or(a, b) == IF Truthy(a) THEN a ELSE b

\* String coercion inside a template literal or a += on a string.
ToStr(x) ==
    CASE x.t = "undefined" -> <<"undefined">>
      [] x.t = "null" -> <<"null">>
      [] OTHER -> x.v

\* Number of characters of a chunked string.
RECURSIVE CharLen(_)
CharLen(s) == IF s = <<>> THEN 0 ELSE Len(Head(s)) + CharLen(Tail(s))

\* s.startsWith(p), both chunked; the prefix is a whole number of chunks.
StartsWith(s, p) == Len(s) >= Len(p) /\ SubSeq(s, 1, Len(p)) = p

Contains(s, c) == \E i \in 1..Len(s) : s[i] = c

\* Number of occurrences of the chunk c in s.
RECURSIVE Count(_, _)
Count(s, c) ==
    IF s = <<>> THEN 0
    ELSE (IF Head(s) = c THEN 1 ELSE 0) + Count(Tail(s), c)

\* Position of the first chunk c in s, or 0.
RECURSIVE IndexFrom(_, _, _)
IndexFrom(s, c, i) ==
    IF i > Len(s) THEN 0
    ELSE IF s[i] = c THEN i
    ELSE IndexFrom(s, c, i + 1)

IndexOf(s, c) == IndexFrom(s, c, 1)

\* String.prototype.trim: white space off both ends.
RECURSIVE TrimLeft(_)
TrimLeft(s) ==
    IF s # <<>> /\ Head(s) = " " THEN TrimLeft(Tail(s)) ELSE s

RECURSIVE TrimRight(_)
TrimRight(s) ==
    IF s # <<>> /\ s[Len(s)] = " " THEN TrimRight(SubSeq(s, 1, Len(s) - 1))
    ELSE s

Trim(s) == TrimRight(TrimLeft(s))

\* title.split('|'): the pieces between the separators, at least one.
RECURSIVE Split(_)
Split(s) ==
    LET i == IndexOf(s, "|")
    IN  IF i = 0 THEN <<s>>
        ELSE <<SubSeq(s, 1, i - 1)>> \o Split(SubSeq(s, i + 1, Len(s)))

RECURSIVE Flatten(_)
Flatten(ss) == IF ss = <<>> THEN <<>> ELSE Head(ss) \o Flatten(Tail(ss))

\* lines.join(sep)
RECURSIVE Join(_, _)
Join(ss, sep) ==
    IF ss = <<>> THEN <<>>
    ELSE IF Len(ss) = 1 THEN Head(ss)
    ELSE Head(ss) \o <<sep>> \o Join(Tail(ss), sep)

RECURSIVE SeqsUpTo(_, _)
SeqsUpTo(S, n) ==
    IF n = 0 THEN {<<>>}
    ELSE LET shorter == SeqsUpTo(S, n - 1)
         IN  shorter \cup {Append(s, e) : s \in {x \in shorter : Len(x) = n - 1}, e \in S}

(***************************************************************************)
(* Upstream data.  A response body is a JSON value; the model keeps the    *)
(* fields the code reads.  body is "object", "null" (the JSON value null)  *)
(* or "empty" (no body: axios hands over the empty string).                *)
(***************************************************************************)
NoList == [t |-> "undefined", items |-> <<>>]
Array(items) == [t |-> "array", items |-> items]
NotAnArray == [t |-> "object", items |-> <<>>]

Entry(title, name, source_url, url) ==
    [t |-> "object", title |-> title, name |-> name, source_url |-> source_url,
     url |-> url, snippet |-> Undef, content |-> Undef, excerpt |-> Undef]

NullEntry == [Entry(Undef, Undef, Undef, Undef) EXCEPT !.t = "null"]

Data(body, answer, list, uncertain, thread, confidence) ==
    [body |-> body, answer |-> answer, relevant_sources |-> list,
     sources |-> NoList, is_uncertain |-> uncertain, thread_id |-> thread,
     question_answer_id |-> Undef, confidence |-> confidence,
     detail |-> Undef, message |-> Undef]

NoData == Data("empty", Undef, NoList, Undef, Undef, Undef)

\* data.f for a field f the code reads; a property of "" is undefined.
Field(data, f) == IF data.body = "object" THEN data[f] ELSE Undef

Thrown(msg) == [threw |-> TRUE, error |-> msg, value |-> <<>>]
Returned(x) == [threw |-> FALSE, error |-> <<>>, value |-> x]

TypeErrorReading(of, prop) ==
    <<"Cannot read properties of ", of, " (reading '", prop, "')">>

DefaultTitle == <<"Documentation">>
DefaultUrl == <<"#">>
NoAnswer == <<"No answer available">>

\* A variant of AdaptAnswer without the placeholder.
AdaptAnswerPassThrough(data) == Field(data, "answer")

\* data.answer || 'No answer available', line 127.
AdaptAnswer(data) == Or(Field(data, "answer"), Str(NoAnswer))

\* A variant of AdaptSource whose url defaults to the documentation's home.
AdaptSourceHomeDefault(source) ==
    [title |-> Or(Or(source.title, source.name), Str(DefaultTitle)),
     url |-> Or(Or(source.source_url, source.url), Str(<<"http", "s", "://", "docs.strapi.io">>)),
     snippet |-> Or(Or(Or(source.snippet, source.content), source.excerpt), Str(<<>>))]

\* One source of the upstream list, lines 120-124.
AdaptSource(source) ==
    [title |-> Or(Or(source.title, source.name), Str(DefaultTitle)),
     url |-> Or(Or(source.source_url, source.url), Str(DefaultUrl)),
     snippet |-> Or(Or(Or(source.snippet, source.content), source.excerpt), Str(<<>>))]

\* KapaClient.adaptKapaResponse(data): the normalized record, or the
\* TypeError that reading a property of null or mapping a non-array raises.
AdaptKapaResponse(data) ==
    LET list == IF data.body = "object" THEN data.relevant_sources ELSE NoList
        items == IF list.t = "array" THEN list.items ELSE <<>>
    IN  IF data.body = "null"
        THEN Thrown(TypeErrorReading("null", "relevant_sources"))
        ELSE IF list.t = "object"
        THEN Thrown(<<"(data.relevant_sources || []).map is not a function">>)
        ELSE IF \E i \in 1..Len(items) : items[i].t = "null"
        THEN Thrown(TypeErrorReading("null", "title"))
        ELSE Returned(
            [answer |-> AdaptAnswer(data),
             sources |-> [i \in 1..Len(items) |-> AdaptSource(items[i])],
             confidence |-> Or(Field(data, "confidence"),
                               IF Truthy(Field(data, "is_uncertain"))
                               THEN Num("0.5") ELSE Num("0.8")),
             thread_id |-> Field(data, "thread_id"),
             question_answer_id |-> Field(data, "question_answer_id"),
             is_uncertain |-> Or(Field(data, "is_uncertain"), False)])

(***************************************************************************)
(* The outcome of one HTTP POST, and the error object axios rejects with.  *)
(* kind: "2xx" (resolved), "status" (a response outside 2xx), "noresponse" *)
(* (the connection failed), "timeout" (the client's timeout expired),      *)
(* "setup" (the request could not be built: no request, no response).      *)
(***************************************************************************)
Outcome(kind, status, data) == [kind |-> kind, status |-> status, data |-> data]

NoOutcome == Outcome("none", 0, NoData)

AxiosError(outcome, baseURL) ==
    [response |-> outcome.kind = "status",
     status |-> outcome.status,
     data |-> outcome.data,
     request |-> outcome.kind \in {"status", "noresponse", "timeout"},
     baseURL |-> baseURL]

\* A variant of StatusMessage without the switch: every status gets the
\* generic message.
StatusMessageGeneric(status, data) ==
    <<"API error (", ToString(status), "): ">> \o
    ToStr(Or(Or(Field(data, "detail"), Field(data, "message")), Str(<<"Unknown error">>)))

\* switch (status), lines 91-109.
StatusMessage(status, data) ==
    CASE status = 401 -> <<"Invalid API key. Please check your ", "KAPA_API_KEY", ".">>
      [] status = 403 ->
            <<"Access forbidden. Please check your project ", "permissions", ".">>
      [] status = 404 -> <<"Project not found. Please check your ", "KAPA_PROJECT_ID", ".">>
      [] status = 422 ->
            <<"Invalid request: ">> \o
            ToStr(Or(Field(data, "detail"), Str(<<"Please check your request parameters.">>)))
      [] status = 429 -> <<"Rate limit", " exceeded. Please try again later.">>
      [] OTHER ->
            <<"API error (", ToString(status), "): ">> \o
            ToStr(Or(Or(Field(data, "detail"), Field(data, "message")),
                     Str(<<"Unknown error">>)))

\* A variant of ErrorMessage without the error.request branch.
ErrorMessageWithoutRequestBranch(error) ==
    IF error.response THEN StatusMessage(error.status, error.data)
    ELSE <<"Failed to query Kapa API">>

\* The catch branch of KapaClient.query, lines 85-112.  error is an axios
\* error, or has neither response nor request (a TypeError of the adapter).
ErrorMessage(error) ==
    IF error.response THEN StatusMessage(error.status, error.data)
    ELSE IF error.request
    THEN <<"Network error: Unable to reach Kapa API at ">> \o error.baseURL
    ELSE <<"Failed to query Kapa API">>

NotAxios == [response |-> FALSE, status |-> 0, data |-> NoData, request |-> FALSE,
             baseURL |-> <<>>]

\* KapaClient.query from the point where the POST settles, lines 74-115.
Query(outcome, baseURL) ==
    IF outcome.kind = "2xx"
    THEN LET r == AdaptKapaResponse(outcome.data)
         IN  IF r.threw THEN Thrown(ErrorMessage(NotAxios)) ELSE r
    ELSE Thrown(ErrorMessage(AxiosError(outcome, baseURL)))

\* A variant of EnhancedQuery that puts the context after the query.
EnhancedQueryContextLast(query, context) ==
    IF Truthy(context)
    THEN Str(ToStr(query) \o <<"\n\nContext: ">> \o ToStr(context))
    ELSE query

\* KapaClient.searchDocumentation: the query string sent upstream.
EnhancedQuery(query, context) ==
    IF Truthy(context)
    THEN Str(<<"Context: ">> \o ToStr(context) \o <<"\n\nQuestion: ">> \o ToStr(query))
    ELSE query

(***************************************************************************)
(* The tool handlers.  Each handler runs up to its POST (Prepare), is      *)
(* suspended, and continues when the POST settles (Finish).                *)
(***************************************************************************)
NoArgs ==
    [t |-> "undefined", query |-> Undef, context |-> Undef, topic |-> Undef,
     project_type |-> Undef, issue_description |-> Undef, error_message |-> Undef,
     strapi_version |-> Undef]

EmptyArgs == [NoArgs EXCEPT !.t = "object"]

WarnQuery ==
    "\n\n*Note: The AI is uncertain about this answer. Please verify the information.*"
WarnBestPractices ==
    "\n\n*Note: Please verify these recommendations with the official Strapi documentation.*"
WarnTroubleshoot ==
    "\n\n*If this solution doesn't work, consider checking the Strapi community forum or GitHub issues.*"
HeadingQuery == "\n\n**Sources:**\n"
HeadingBestPractices == "\n\n**References:**\n"
HeadingTroubleshoot == "\n\n**Helpful Resources:**\n"

\* A variant of Uncertainty that tests for a defined flag, not a true one.
UncertaintyWhenDefined(response, warning) ==
    IF response.is_uncertain.t # "undefined" THEN <<warning>> ELSE <<>>

\* if (response.is_uncertain) responseText += warning
Uncertainty(response, warning) ==
    IF Truthy(response.is_uncertain) THEN <<warning>> ELSE <<>>

\* The title cleanup of handleQueryStrapiDocs, lines 406-416.
CleanTitle(title) ==
    IF Contains(title, "|")
    THEN LET parts == Split(title)
             pageTitle == Trim(parts[1])
             sectionTitle == Trim(parts[2])
         IN  IF sectionTitle # <<>> /\ sectionTitle # pageTitle
             THEN pageTitle \o <<" - ">> \o sectionTitle
             ELSE pageTitle
    ELSE title

\* A variant of SourceLine that numbers from zero: `${index}. [...`
SourceLineZeroBased(index, title, url) ==
    <<ToString(index - 1), ". [">> \o title \o <<"](">> \o url \o <<")">>

\* `${index + 1}. [${title}](${url})`; index counts from 1 here.
SourceLine(index, title, url) ==
    <<ToString(index), ". [">> \o title \o <<"](">> \o url \o <<")">>

\* The filter of handleQueryStrapiDocs, lines 394-398.
ValidQuerySource(source) ==
    /\ Truthy(source.url)
    /\ StartsWith(source.url.v, <<"http">>) \/ StartsWith(source.url.v, <<"http", "s">>)
    /\ source.url.v # <<"#">>

\* The filter of the two other handlers: s.url.startsWith('http').
ValidPlainSource(source) == StartsWith(source.url.v, <<"http">>)

\* handleQueryStrapiDocs after searchDocumentation resolved, lines 385-426.
FormatQueryStrapiDocs(response) ==
    LET sources == response.sources
        valid == SelectSeq(sources, ValidQuerySource)
        title(source) == Or(source.title, Str(DefaultTitle))
        lines == [i \in 1..Len(valid) |->
                    SourceLine(i, CleanTitle(title(valid[i]).v), valid[i].url.v) \o <<"\n">>]
    IN  IF \E i \in 1..Len(sources) :
               Truthy(sources[i].url) /\ sources[i].url.t # "string"
        THEN Thrown(<<"source.url.startsWith is not a function">>)
        ELSE IF \E i \in 1..Len(valid) : title(valid[i]).t # "string"
        THEN Thrown(<<"title.includes is not a function">>)
        ELSE Returned(
            ToStr(response.answer)
            \o Uncertainty(response, WarnQuery)
            \o (IF Len(valid) > 0 THEN <<HeadingQuery>> \o Flatten(lines) ELSE <<>>)
            \o (IF Truthy(response.thread_id)
                THEN <<"\n\n*Thread ID: ">> \o ToStr(response.thread_id) \o <<"*">>
                ELSE <<>>))

\* The tail both other handlers share: warning, then the filtered list.
FormatPlain(head, response, warning, heading) ==
    LET sources == response.sources
        valid == SelectSeq(sources, ValidPlainSource)
        lines == [i \in 1..Len(valid) |->
                    SourceLine(i, ToStr(valid[i].title), ToStr(valid[i].url))]
    IN  IF \E i \in 1..Len(sources) : sources[i].url.t # "string"
        THEN Thrown(<<"s.url.startsWith is not a function">>)
        ELSE Returned(
            head \o ToStr(response.answer)
            \o Uncertainty(response, warning)
            \o (IF Len(valid) > 0 THEN <<heading>> \o Join(lines, "\n") ELSE <<>>))

\* handleGetBestPractices after searchDocumentation resolved, lines 445-458.
FormatBestPractices(args, response) ==
    FormatPlain(<<"**Best Practices for ">> \o ToStr(args.topic) \o <<"**\n\n">>,
                response, WarnBestPractices, HeadingBestPractices)

\* handleTroubleshootIssue after searchDocumentation resolved, lines 492-505.
FormatTroubleshoot(args, response) ==
    FormatPlain(<<"**Troubleshooting: ">> \o ToStr(args.issue_description) \o <<"**\n\n">>,
                response, WarnTroubleshoot, HeadingTroubleshoot)

\* The query string of handleGetBestPractices, lines 439-441.
BestPracticesQuery(args) ==
    Str(<<"What are the best practices for ">> \o ToStr(args.topic) \o <<" in Strapi">>
        \o (IF Truthy(args.project_type)
            THEN <<" for ">> \o ToStr(args.project_type) \o <<" projects">>
            ELSE <<>>)
        \o <<"? Please provide detailed recommendations, examples, and common pitfalls to avoid.">>)

\* The query string of handleTroubleshootIssue, lines 475-485.
TroubleshootQuery(args) ==
    Str(<<"I'm experiencing this issue with Strapi: ">> \o ToStr(args.issue_description)
        \o (IF Truthy(args.error_message)
            THEN <<"\n\nSpecific error message: \"">> \o ToStr(args.error_message) \o <<"\"">>
            ELSE <<>>)
        \o (IF Truthy(args.strapi_version)
            THEN <<"\n\nI'm using Strapi version: ">> \o ToStr(args.strapi_version)
            ELSE <<>>)
        \o <<"\n\nHow can I resolve this issue? Please provide step-by-step troubleshooting instructions and possible causes.">>)

TestQuery == Str(<<"What is Strapi? Please provide a brief answer.">>)

ToolNames ==
    {"query_strapi_docs", "test_kapa_connection", "get_strapi_best_practices",
     "troubleshoot_strapi_issue"}

Operations == ToolNames \ {"test_kapa_connection"}

\* The handler of `name` up to its POST: the query string it sends, or the
\* error it throws before any request is made.
Prepare(name, args) ==
    CASE name = "query_strapi_docs" ->
            IF args.t = "undefined" THEN Thrown(TypeErrorReading("undefined", "query"))
            ELSE Returned(EnhancedQuery(args.query, args.context))
      [] name = "test_kapa_connection" -> Returned(TestQuery)
      [] name = "get_strapi_best_practices" ->
            IF args.t = "undefined" THEN Thrown(TypeErrorReading("undefined", "topic"))
            ELSE Returned(EnhancedQuery(BestPracticesQuery(args), Str(<<"best practices">>)))
      [] name = "troubleshoot_strapi_issue" ->
            IF args.t = "undefined"
            THEN Thrown(TypeErrorReading("undefined", "issue_description"))
            ELSE Returned(EnhancedQuery(TroubleshootQuery(args),
                                        Str(<<"troubleshooting and problem solving">>)))
      [] OTHER -> Thrown(<<"Unknown tool: ", name>>)

\* KapaClient.testConnection from the point where its POST settles.
TestConnection(q) ==
    IF q.threw
    THEN [success |-> FALSE, message |-> q.error, details |-> <<>>]
    ELSE IF q.value.answer.t = "string" /\ CharLen(q.value.answer.v) > 10
    THEN [success |-> TRUE, message |-> <<"Connection successful">>,
          details |->
            <<"Details:\n- Answer length: ", ToString(CharLen(q.value.answer.v)),
              " characters\n- Sources found: ", ToString(Len(q.value.sources)),
              "\n- Thread ID: ">> \o ToStr(q.value.thread_id) \o
            <<"\n- Uncertain: ",
              IF Truthy(q.value.is_uncertain) THEN "Yes" ELSE "No", "\n\n">>]
    ELSE [success |-> FALSE,
          message |-> <<"Connection established but received empty response">>,
          details |-> <<>>]

\* A variant of PerformStartupTest for a connection test that lets the
\* error of its query through, with nothing to catch it on the way.
PerformStartupTestUncaught(q) ==
    LET result == TestConnection(q)
    IN  [escaped |-> q.threw, success |-> result.success,
         log |-> IF result.success THEN <<"Kapa API connection successful">>
                 ELSE <<"Kapa API connection failed: ">> \o result.message]

\* performStartupTest from the point where the POST of testConnection
\* settled: what it logs, and whether an error left it (escaped).
\* testConnection catches the error of its query and performStartupTest
\* wraps the whole in a try of its own.
PerformStartupTest(q) ==
    LET result == TestConnection(q)
    IN  [escaped |-> FALSE, success |-> result.success,
         log |-> IF result.success THEN <<"Kapa API connection successful">>
                 ELSE <<"Kapa API connection failed: ">> \o result.message]

DefaultBaseURL == <<"http", "s", "://", "api.kapa.ai">>

\* A variant of BaseURL without the default.
BaseURLAsConfigured(e) == ToStr(e.KAPA_API_URL)

\* process.env.KAPA_API_URL || 'https://api.kapa.ai', lines 205-209 and 357.
BaseURL(e) == ToStr(Or(e.KAPA_API_URL, Str(DefaultBaseURL)))

DefaultServerName == <<"strapi-docs">>

\* process.env.MCP_SERVER_NAME || 'strapi-docs', line 195: the name the
\* server announces to its host.
ServerName(e) == ToStr(Or(e.MCP_SERVER_NAME, Str(DefaultServerName)))

\* KAPA_API_KEY.slice(-4); the key's last chunk holds its last four characters.
LastFour(key) == IF CharLen(key) <= 4 THEN key ELSE <<key[Len(key)]>>

\* handleTestConnection after testConnection resolved, lines 341-368.
FormatTestConnection(e, result) ==
    <<IF result.success THEN "(ok)" ELSE "(x)", " Kapa API Connection Test\n\n",
      "Status: ", IF result.success THEN "SUCCESS" ELSE "FAILED", "\n", "Message: ">>
    \o result.message \o <<"\n\n">> \o result.details
    \o <<"Configuration:\n", "- API URL: ">> \o BaseURL(e)
    \o <<"\n- Project ID: ">> \o ToStr(e.KAPA_PROJECT_ID)
    \o <<"\n- API Key: ">>
    \o (IF Truthy(e.KAPA_API_KEY) THEN <<"***">> \o LastFour(e.KAPA_API_KEY.v)
        ELSE <<"Not set">>)

\* The handler of `name` from the point where its query settled (q, the
\* normalized response or the error of KapaClient.query): the text it
\* returns, or the error it throws.
Finish(e, name, args, q) ==
    IF name = "test_kapa_connection"
    THEN Returned(FormatTestConnection(e, TestConnection(q)))
    ELSE IF q.threw THEN q
    ELSE CASE name = "query_strapi_docs" -> FormatQueryStrapiDocs(q.value)
           [] name = "get_strapi_best_practices" -> FormatBestPractices(args, q.value)
           [] OTHER -> FormatTroubleshoot(args, q.value)

(***************************************************************************)
(* The CallTool dispatcher, lines 304-336: what the host gets back.        *)
(***************************************************************************)
NoResult == [type |-> "none", text |-> <<>>, isError |-> "absent"]
ToolText(text) == [type |-> "text", text |-> text, isError |-> "absent"]
ToolError(msg) == [type |-> "text", text |-> <<"Error: ">> \o msg, isError |-> "true"]

\* A variant of Dispatched whose catch returns the text without the flag, as
\* the catch of handleTestConnection does.
DispatchedUnflagged(r) ==
    [escaped |-> FALSE,
     result |-> IF r.threw THEN ToolText(<<"Error: ">> \o r.error) ELSE ToolText(r.value)]

\* try { return await handler } catch (error) { return error result }:
\* escaped says whether the handler's error left the dispatcher.
Dispatched(r) ==
    [escaped |-> FALSE,
     result |-> IF r.threw THEN ToolError(r.error) ELSE ToolText(r.value)]

\* The normalized response of a request whose query has not resolved.
NoResponse ==
    [answer |-> Undef, sources |-> <<>>, confidence |-> Undef, thread_id |-> Undef,
     question_answer_id |-> Undef, is_uncertain |-> Undef]

\* A request: where its handler stands (pc), what the host sent, the query
\* string and the number of POSTs it issued, how its POST settled, the
\* normalized response (queried says whether there is one) and the result.
Idle ==
    [pc |-> "idle", name |-> "", args |-> NoArgs, sent |-> Undef, posts |-> 0,
     outcome |-> NoOutcome, queried |-> "no", response |-> NoResponse,
     escaped |-> FALSE, result |-> NoResult]

\* A request from its arrival to its POST, or to its result when the
\* handler throws before any request is made.
Started(name, args) ==
    LET p == Prepare(name, args)
        d == Dispatched(p)
    IN  IF p.threw
        THEN [Idle EXCEPT !.pc = "done", !.name = name, !.args = args,
                          !.escaped = d.escaped, !.result = d.result]
        ELSE [Idle EXCEPT !.pc = "waiting", !.name = name, !.args = args,
                          !.sent = p.value, !.posts = 1]

\* A variant of Settled that posts once more after a failed attempt.
SettledRetrying(e, r, outcome) ==
    LET q == Query(outcome, BaseURL(e))
        d == Dispatched(Finish(e, r.name, r.args, q))
    IN  IF outcome.kind # "2xx" /\ r.posts < 2
        THEN [r EXCEPT !.posts = @ + 1]
        ELSE [r EXCEPT !.pc = "done", !.outcome = outcome,
                       !.queried = IF q.threw THEN "rejected" ELSE "resolved",
                       !.response = IF q.threw THEN NoResponse ELSE q.value,
                       !.escaped = d.escaped, !.result = d.result]

\* A variant of Settled for a client that keeps the conversation thread:
\* a response takes the thread id a finished request left behind.
SettledSharingThread(e, r, outcome) ==
    LET q == Query(outcome, BaseURL(e))
        left == {j \in DOMAIN req : Truthy(req[j].response.thread_id)}
        kept == IF left = {} THEN Undef
                ELSE req[CHOOSE j \in left : TRUE].response.thread_id
        shared == IF q.threw THEN q
                  ELSE Returned([q.value EXCEPT !.thread_id = Or(kept, @)])
        d == Dispatched(Finish(e, r.name, r.args, shared))
    IN  [r EXCEPT !.pc = "done", !.outcome = outcome,
                  !.queried = IF q.threw THEN "rejected" ELSE "resolved",
                  !.response = IF q.threw THEN NoResponse ELSE shared.value,
                  !.escaped = d.escaped, !.result = d.result]

\* A suspended request from the settling of its POST to its result.
Settled(e, r, outcome) ==
    LET q == Query(outcome, BaseURL(e))
        d == Dispatched(Finish(e, r.name, r.args, q))
    IN  [r EXCEPT !.pc = "done", !.outcome = outcome,
                  !.queried = IF q.threw THEN "rejected" ELSE "resolved",
                  !.response = IF q.threw THEN NoResponse ELSE q.value,
                  !.escaped = d.escaped, !.result = d.result]

(***************************************************************************)
(* Inputs: the environment, the host's requests, the upstream's answers.   *)
(***************************************************************************)
Requests == 1..MaxInFlight

Https(rest) == Str(<<"http", "s", "://", rest>>)

ApiKey == Str(<<"sk-", "1234">>)

Environments ==
    [KAPA_API_KEY : {Undef, Str(<<>>), ApiKey},
     KAPA_PROJECT_ID : {Undef, Str(<<"strapi">>)},
     KAPA_API_URL : {Undef, Https("kapa.example")},
     MCP_SERVER_NAME : {Undef, Str(<<"docs">>)}]

Required == {"KAPA_API_KEY", "KAPA_PROJECT_ID"}

\* A variant of EnvMissing that takes only an unset variable for missing.
EnvMissingWhenUnset(value) == value.t = "undefined"

\* !process.env[key]
EnvMissing(value) == ~Truthy(value)

QueryArgs == [EmptyArgs EXCEPT !.query = Str(<<"How do I add a field?">>)]
QueryContextArgs == [QueryArgs EXCEPT !.context = Str(<<"Strapi 5">>)]
QueryEmptyContextArgs == [QueryArgs EXCEPT !.context = Str(<<>>)]
TopicArgs == [EmptyArgs EXCEPT !.topic = Str(<<"plugins">>)]
TopicProjectArgs == [TopicArgs EXCEPT !.project_type = Str(<<"GraphQL">>)]
IssueArgs == [EmptyArgs EXCEPT !.issue_description = Str(<<"build fails">>)]
IssueFullArgs ==
    [IssueArgs EXCEPT !.error_message = Str(<<"ENOENT">>),
                      !.strapi_version = Str(<<"5.0.0">>)]

UnknownTool == "delete_strapi_docs"

\* The requests of a host: a tool name with the arguments object of its
\* schema, with an empty object, or with no arguments at all.
Calls ==
    ({"query_strapi_docs"} \X {NoArgs, EmptyArgs, QueryArgs, QueryContextArgs,
                                 QueryEmptyContextArgs})
    \cup ({"get_strapi_best_practices"} \X {NoArgs, TopicArgs, TopicProjectArgs})
    \cup ({"troubleshoot_strapi_issue"} \X {NoArgs, IssueArgs, IssueFullArgs})
    \cup ({"test_kapa_connection"} \X {EmptyArgs})
    \cup ({UnknownTool} \X {NoArgs, EmptyArgs})

Answer == Str(<<"Use the Content-Type Builder.">>)

\* Source entries as the upstream sends them.
Entries ==
    {Entry(Str(<<"CTB", "|", "Fields">>), Undef, Https("docs.example/ctb"), Undef),
     Entry(Str(<<"Intro", " ", "|", " ", "Intro">>), Undef, Undef,
           Str(<<"http", "://", "docs.example/intro">>)),
     Entry(Undef, Str(<<"Named">>), Undef, Undef),
     Entry(Str(<<"API", "|">>), Undef, Str(<<"http", "x-not-a-url">>), Undef),
     Entry(Undef, Undef, Str(<<"/docs/relative">>), Https("docs.example/guide")),
     Entry(Num("7"), Undef, Https("docs.example/seven"), Undef),
     NullEntry}

SourceLists == {Array(items) : items \in SeqsUpTo(Entries, MaxSources)}

\* Bodies of a 2xx response.
Payloads ==
    {Data("object", Answer, list, uncertain, thread, Undef) :
        list \in SourceLists, uncertain \in {Undef, True, False},
        thread \in {Undef, Str(<<"thread-1">>)}}
    \cup {Data(body, Answer, NoList, Undef, Undef, Undef) : body \in {"null", "empty"}}
    \cup {[Data("object", Answer, NoList, Undef, Undef, Undef)
               EXCEPT !.sources = Array(<<Entry(Str(<<"Guide">>), Undef,
                                               Https("docs.example/guide"), Undef)>>)]}
    \cup {Data("object", answer, list, True, Undef, confidence) :
            answer \in {Undef, Null, Str(<<>>), Str(<<"short">>)},
            list \in {NoList, NotAnArray,
                      Array(<<Entry(Str(<<"Guide">>), Undef,
                                    Https("docs.example/guide"), Undef)>>)},
            confidence \in {Undef, Num("0"), Num("0.9")}}

\* Bodies of a response outside 2xx: detail and message, and whatever else
\* the upstream put there.
ErrorBodies ==
    {[Data(body, answer, list, Undef, Undef, Undef)
        EXCEPT !.detail = detail, !.message = message] :
        body \in {"object"}, answer \in {Undef, Answer},
        list \in {NoList, Array(<<Entry(Str(<<"Guide">>), Undef,
                                        Https("docs.example/guide"), Undef)>>)},
        detail \in {Undef, Str(<<>>), Str(<<"query too long">>)},
        message \in {Undef, Str(<<"upstream says no">>)}}
    \cup {NoData}

Statuses == {400, 401, 403, 404, 422, 429, 500}

Outcomes ==
    {Outcome("2xx", 200, data) : data \in Payloads}
    \cup {Outcome("status", status, data) : status \in Statuses, data \in ErrorBodies}
    \cup {Outcome(kind, 0, NoData) : kind \in {"noresponse", "timeout", "setup"}}

\* The requests and answers of the whole-process specification: one call
\* of each shape, and answers that differ in every field a result shows.
FewCalls ==
    {<<"query_strapi_docs", QueryArgs>>, <<"query_strapi_docs", NoArgs>>,
     <<"get_strapi_best_practices", TopicArgs>>, <<UnknownTool, EmptyArgs>>}

FewOutcomes ==
    {Outcome("2xx", 200,
             Data("object", Answer,
                  Array(<<Entry(Str(<<"CTB", "|", "Fields">>), Undef,
                                Https("docs.example/ctb"), Undef)>>),
                  Undef, Str(<<"thread-1">>), Undef)),
     Outcome("2xx", 200,
             Data("object", Str(<<"Plugins extend the admin panel.">>), NoList,
                  True, Str(<<"thread-2">>), Undef)),
     Outcome("2xx", 200, Data("null", Undef, NoList, Undef, Undef, Undef)),
     Outcome("status", 429, NoData),
     Outcome("timeout", 0, NoData)}

(***************************************************************************)
(* The process: start-up, then requests served concurrently, each          *)
(* suspended at its POST.                                                  *)
(***************************************************************************)
Exit(cause) == phase' = "exited" /\ exitCause' = cause

\* validateEnvironment(), lines 552-561.
ValidateEnvironment ==
    /\ phase = "boot"
    /\ IF \E key \in Required : EnvMissing(env[key])
       THEN Exit("missing-env")
       ELSE phase' = "validated" /\ UNCHANGED exitCause
    /\ UNCHANGED <<env, test, req>>

\* new StrapiKapaMCPServer(), lines 184-214: the constructor throws at the
\* top level of the module when a variable is missing; otherwise it
\* registers the handlers and launches performStartupTest, whose POST
\* leaves at once.
Construct ==
    /\ phase = "validated"
    /\ IF EnvMissing(env.KAPA_API_KEY) \/ EnvMissing(env.KAPA_PROJECT_ID)
       THEN Exit("constructor-threw") /\ UNCHANGED test
       ELSE phase' = "constructed" /\ test' = "inflight" /\ UNCHANGED exitCause
    /\ UNCHANGED <<env, req>>

\* server.start(), lines 539-548.
Start(connects) ==
    /\ phase = "constructed"
    /\ IF connects
       THEN phase' = "connected" /\ UNCHANGED exitCause
       ELSE Exit("connect-failed")
    /\ UNCHANGED <<env, test, req>>

\* performStartupTest from the settling of its POST, lines 216-227.  The
\* constructor does not await it: a rejection of its promise would reach
\* the unhandledRejection handler, which exits with code 1 (lines 533-536).
StartupTestSettles(outcome) ==
    /\ phase \in {"constructed", "connected"}
    /\ test = "inflight"
    /\ LET t == PerformStartupTest(Query(outcome, BaseURL(env)))
       IN  IF t.escaped
           THEN test' = "rejected" /\ Exit("unhandled-rejection")
           ELSE /\ test' = (IF t.success THEN "passed" ELSE "failed")
                /\ UNCHANGED <<phase, exitCause>>
    /\ UNCHANGED <<env, req>>

\* The SIGINT handler, lines 522-526.
Sigint ==
    /\ phase \in {"constructed", "connected"}
    /\ Exit("sigint")
    /\ UNCHANGED <<env, test, req>>

\* The CallTool handler up to its POST.
CallTool(i, name, args) ==
    /\ phase = "connected"
    /\ req[i].pc = "idle"
    /\ req' = [req EXCEPT ![i] = Started(name, args)]
    /\ UNCHANGED <<env, phase, exitCause, test>>

\* The POST of request i settles and its handler runs to its result.
Respond(i, outcome) ==
    /\ phase = "connected"
    /\ req[i].pc = "waiting"
    /\ req' = [req EXCEPT ![i] = Settled(env, req[i], outcome)]
    /\ UNCHANGED <<env, phase, exitCause, test>>

\* The host takes the result; nothing of the request is kept.
Return(i) ==
    /\ phase = "connected"
    /\ req[i].pc = "done"
    /\ req' = [req EXCEPT ![i] = Idle]
    /\ UNCHANGED <<env, phase, exitCause, test>>

Init ==
    /\ env \in Environments
    /\ phase = "boot"
    /\ exitCause = "none"
    /\ test = "none"
    /\ req = [i \in Requests |-> Idle]

Next ==
    \/ ValidateEnvironment
    \/ Construct
    \/ \E connects \in BOOLEAN : Start(connects)
    \/ \E outcome \in FewOutcomes : StartupTestSettles(outcome)
    \/ Sigint
    \/ \E i \in Requests, call \in FewCalls : CallTool(i, call[1], call[2])
    \/ \E i \in Requests, outcome \in FewOutcomes : Respond(i, outcome)
    \/ \E i \in Requests : Return(i)

\* The whole process with a few requests in flight.
Spec == Init /\ [][Next]_vars

\* One request of a running server, with every request shape and every
\* upstream answer.
InitCall ==
    /\ env \in {e \in Environments :
                  /\ \A key \in Required : ~EnvMissing(e[key])
                  /\ e.MCP_SERVER_NAME = Undef}
    /\ phase = "connected"
    /\ exitCause = "none"
    /\ test = "passed"
    /\ req = [i \in Requests |-> Idle]

NextCall ==
    \/ \E call \in Calls : CallTool(1, call[1], call[2])
    \/ \E outcome \in Outcomes : Respond(1, outcome)

SpecCall == InitCall /\ [][NextCall]_vars

(***************************************************************************)
(* Properties.  What a property says about a request it reads from what    *)
(* the host sent (name, args), what the upstream answered (outcome) and    *)
(* what the host got back (result).                                        *)
(***************************************************************************)
Done(r) == r.pc = "done"
Succeeded(r) == Done(r) /\ r.result.isError = "absent"
Text(r) == r.result.text

\* The entries of the upstream's source list, when it is a list.
RawSources(data) ==
    IF data.body = "object" /\ data.relevant_sources.t = "array"
    THEN data.relevant_sources.items
    ELSE <<>>

\* The url an entry carries, under either key; <<>> when it carries none.
RawUrl(entry) ==
    IF entry.source_url.t = "string" /\ entry.source_url.v # <<>> THEN entry.source_url.v
    ELSE IF entry.url.t = "string" /\ entry.url.v # <<>> THEN entry.url.v
    ELSE <<>>

\* The 2xx bodies that cannot be normalized or rendered: a null body, a
\* source field that is no list, a null entry, and for the documentation
\* query a displayed entry whose title is not a string.
Unusable(name, data) ==
    \/ data.body = "null"
    \/ data.body = "object" /\ data.relevant_sources.t = "object"
    \/ \E j \in 1..Len(RawSources(data)) : RawSources(data)[j].t = "null"
    \/ /\ name = "query_strapi_docs"
       /\ \E j \in 1..Len(RawSources(data)) :
            /\ RawSources(data)[j].title.t = "number"
            /\ RawUrl(RawSources(data)[j]) # <<>>
            /\ Head(RawUrl(RawSources(data)[j])) = "http"

\* The request failed: unknown tool, no arguments object to read, upstream
\* failure, or a 2xx body the handler cannot use.
Failed(r) ==
    \/ r.name \notin ToolNames
    \/ r.args.t = "undefined"
    \/ r.outcome.kind # "2xx"
    \/ Unusable(r.name, r.outcome.data)

\* C1: every call of one of the three operations or of an unknown tool, for
\* any arguments and any upstream outcome, returns a text payload and never
\* throws; the payload carries isError = true exactly when the call failed
\* and carries no error flag when it succeeded.
C1_AlwaysTextFlaggedIffFailed ==
    \A i \in Requests :
        Done(req[i]) /\ req[i].name \in Operations \cup {UnknownTool} =>
            /\ ~req[i].escaped
            /\ req[i].result.type = "text"
            /\ req[i].result.isError = (IF Failed(req[i]) THEN "true" ELSE "absent")

\* A documentation query whose upstream answered 2xx and whose rendering
\* threw: the error stayed inside the dispatcher.
C1_Witness ==
    \E i \in Requests :
        /\ Done(req[i])
        /\ req[i].name = "query_strapi_docs"
        /\ req[i].args.t = "object"
        /\ req[i].outcome.kind = "2xx"
        /\ req[i].queried = "resolved"
        /\ req[i].result.isError = "true"

\* The chunk that tells each message of the status taxonomy from the others.
StatusMarkers ==
    {"KAPA_API_KEY", "permissions", "KAPA_PROJECT_ID", "Invalid request: ",
     "Rate limit", "API error ("}

MarkerOf(status) ==
    CASE status = 401 -> "KAPA_API_KEY"
      [] status = 403 -> "permissions"
      [] status = 404 -> "KAPA_PROJECT_ID"
      [] status = 422 -> "Invalid request: "
      [] status = 429 -> "Rate limit"
      [] OTHER -> "API error ("

Present(value) == value.t = "string" /\ value.v # <<>>

\* s holds the chunks of part, in a row.
Includes(s, part) ==
    \E p \in 1..(Len(s) - Len(part) + 1) : SubSeq(s, p, p + Len(part) - 1) = part

\* C2: when the upstream answers an operation with a status outside 2xx, the
\* result is error-flagged and its text holds the one message of that
\* status: 401 names KAPA_API_KEY, 403 permissions, 404 KAPA_PROJECT_ID, 422
\* includes the upstream detail when present, 429 says "Rate limit", every
\* other status shows the status code and the detail (else the message); no
\* answer and no source of the failed response is in the text.
C2_StatusTaxonomy ==
    \A i \in Requests :
        LET r == req[i]
            data == r.outcome.data
        IN  Done(r) /\ r.name \in Operations /\ r.outcome.kind = "status" =>
                /\ r.result.isError = "true"
                /\ \A m \in StatusMarkers :
                       Count(Text(r), m) = (IF m = MarkerOf(r.outcome.status) THEN 1 ELSE 0)
                /\ ~Contains(Text(r), "Network error: Unable to reach Kapa API at ")
                /\ r.outcome.status = 422 /\ Present(data.detail) =>
                       Includes(Text(r), data.detail.v)
                /\ r.outcome.status \notin {401, 403, 404, 422, 429} =>
                       /\ Contains(Text(r), ToString(r.outcome.status))
                       /\ Present(data.detail) => Includes(Text(r), data.detail.v)
                       /\ ~Present(data.detail) /\ Present(data.message) =>
                              Includes(Text(r), data.message.v)
                /\ Present(data.answer) => ~Includes(Text(r), data.answer.v)
                /\ ~Contains(Text(r), "](")
                /\ \A j \in 1..Len(RawSources(data)) :
                       ~Includes(Text(r), RawUrl(RawSources(data)[j]))

\* A 422 whose body carries a detail, an answer and a source.
C2_Witness ==
    \E i \in Requests :
        /\ Done(req[i])
        /\ req[i].name = "get_strapi_best_practices"
        /\ req[i].outcome.kind = "status"
        /\ req[i].outcome.status = 422
        /\ Present(req[i].outcome.data.detail)
        /\ Present(req[i].outcome.data.answer)
        /\ RawSources(req[i].outcome.data) # <<>>

\* The base URL the client was configured with.
ConfiguredBaseURL ==
    IF Present(env.KAPA_API_URL) THEN env.KAPA_API_URL.v
    ELSE <<"http", "s", "://", "api.kapa.ai">>

\* C3: when the POST of an operation gets no response (the connection
\* failed, or the client's timeout expired), the result is the
\* network-failure error with the configured base URL, the same for a
\* timeout as for any other missing response, and none of the messages of
\* the status taxonomy.
C3_NoResponseIsNetworkError ==
    \A i \in Requests :
        LET r == req[i]
        IN  Done(r) /\ r.name \in Operations /\ r.outcome.kind \in {"noresponse", "timeout"} =>
                /\ r.result.isError = "true"
                /\ Text(r) = <<"Error: ", "Network error: Unable to reach Kapa API at ">>
                             \o ConfiguredBaseURL
                /\ \A m \in StatusMarkers : ~Contains(Text(r), m)

\* A timed-out troubleshooting request of a client with its own base URL.
C3_Witness ==
    \E i \in Requests :
        /\ Done(req[i])
        /\ req[i].name = "troubleshoot_strapi_issue"
        /\ req[i].outcome.kind = "timeout"
        /\ Present(env.KAPA_API_URL)

\* C4 as claimed: every call of one of the three operations has issued
\* exactly one POST when it returns.
C4_OnePostPerOperation ==
    \A i \in Requests :
        Done(req[i]) /\ req[i].name \in Operations => req[i].posts = 1

\* C4, amended: a call of one of the three operations that carries an
\* arguments object issues exactly one POST before it returns, whatever the
\* outcome, and a failed attempt ends it with an error result and no second
\* POST; a call without an arguments object, or of an unknown tool, issues
\* none and returns an error result.
C4_OnePostWhenArgumentsGiven ==
    \A i \in Requests :
        LET r == req[i]
        IN  /\ r.posts <= 1
            /\ r.pc = "waiting" => r.posts = 1
            /\ Done(r) /\ r.name \in Operations =>
                   /\ r.posts = (IF r.args.t = "object" THEN 1 ELSE 0)
                   /\ r.outcome.kind # "2xx" => r.result.isError = "true"
            /\ Done(r) /\ r.name \notin ToolNames =>
                   r.posts = 0 /\ r.result.isError = "true"

\* A request whose one POST was answered with a status outside 2xx.
C4_Witness ==
    \E i \in Requests :
        /\ Done(req[i])
        /\ req[i].name \in Operations
        /\ req[i].outcome.kind = "status"
        /\ req[i].posts = 1
        /\ req[i].result.isError = "true"

\* The positions of the chunk c in s, in increasing order.
RECURSIVE PositionsFrom(_, _, _)
PositionsFrom(s, c, i) ==
    IF i > Len(s) THEN <<>>
    ELSE (IF s[i] = c THEN <<i>> ELSE <<>>) \o PositionsFrom(s, c, i + 1)

Positions(s, c) == PositionsFrom(s, c, 1)

\* A url the source list displays: it starts with "http".
Displayed(url) == url # <<>> /\ Head(url) = "http"

DisplayedSource(source) == source.url.t = "string" /\ Displayed(source.url.v)

RECURSIVE RawUrls(_)
RawUrls(entries) ==
    IF entries = <<>> THEN <<>> ELSE <<RawUrl(Head(entries))>> \o RawUrls(Tail(entries))

\* C5: the text of a successful documentation query is the answer first,
\* then, when at least one source passes the display filter, the Sources
\* heading and one line "n. [title](url)" per passing source, in the order of
\* the upstream list and numbered 1..k by position in the filtered list;
\* when no source passes there is no heading and no line.
C5_AnswerThenNumberedSources ==
    \A i \in Requests :
        LET r == req[i]
            t == Text(r)
            answer == r.response.answer.v
            shown == SelectSeq(RawUrls(RawSources(r.outcome.data)), Displayed)
            dots == Positions(t, ". [")
            closes == Positions(t, "](")
        IN  Succeeded(r) /\ r.name = "query_strapi_docs" =>
                /\ SubSeq(t, 1, Len(answer)) = answer
                /\ Len(dots) = Len(shown)
                /\ Len(closes) = Len(shown)
                /\ Count(t, HeadingQuery) = (IF Len(shown) > 0 THEN 1 ELSE 0)
                /\ Len(shown) > 0 =>
                       /\ IndexOf(t, HeadingQuery) > Len(answer)
                       /\ IndexOf(t, HeadingQuery) = dots[1] - 2
                /\ \A j \in 1..Len(shown) :
                       LET end == closes[j] + Len(shown[j])
                       IN  /\ t[dots[j] - 1] = ToString(j)
                           /\ dots[j] < closes[j]
                           /\ SubSeq(t, closes[j] + 1, end) = shown[j]
                           /\ t[end + 1] = ")"
                           /\ t[end + 2] = "\n"
                           /\ j < Len(shown) => dots[j + 1] = end + 4

\* Two upstream sources of which only the second passes the filter: it is
\* number 1 of the list.
C5_Witness ==
    \E i \in Requests :
        LET urls == RawUrls(RawSources(req[i].outcome.data))
        IN  /\ Succeeded(req[i])
            /\ req[i].name = "query_strapi_docs"
            /\ Len(urls) = 2
            /\ ~Displayed(urls[1])
            /\ Displayed(urls[2])

\* C6: a source entry that carries no url gets the url "#" in the normalized
\* record and is in the source list of none of the three operations.
C6_MissingUrlIsHashAndHidden ==
    \A i \in Requests :
        LET r == req[i]
            raw == RawSources(r.outcome.data)
        IN  Done(r) /\ r.name \in Operations /\ r.queried = "resolved" =>
                /\ Len(r.response.sources) = Len(raw)
                /\ \A j \in 1..Len(raw) :
                       RawUrl(raw[j]) = <<>> => r.response.sources[j].url = Str(<<"#">>)
                /\ ~Includes(Text(r), <<"](", "#">>)
                /\ Count(Text(r), "](") <= Cardinality({j \in 1..Len(raw) : RawUrl(raw[j]) # <<>>})

\* Best practices rendered from one entry without url and one displayed.
C6_Witness ==
    \E i \in Requests :
        LET raw == RawSources(req[i].outcome.data)
        IN  /\ Succeeded(req[i])
            /\ req[i].name = "get_strapi_best_practices"
            /\ \E j \in 1..Len(raw) : RawUrl(raw[j]) = <<>>
            /\ \E j \in 1..Len(raw) : Displayed(RawUrl(raw[j]))

\* The title the claim expects for a title with one "|".
PageAndSection(title) ==
    LET page == Trim(Split(title)[1])
        section == Trim(Split(title)[2])
    IN  IF section # <<>> /\ section # page THEN page \o <<" - ">> \o section ELSE page

\* C7 as claimed: in the source list of each of the three operations a title
\* with exactly one "|" is rendered "A - B" (A, B the trimmed halves) when
\* they differ, and as the single trimmed half otherwise (also when B is
\* empty).
C7_TitleCleanedInEveryOperation ==
    \A i \in Requests :
        LET r == req[i]
            t == Text(r)
            shown == SelectSeq(r.response.sources, DisplayedSource)
            dots == Positions(t, ". [")
            closes == Positions(t, "](")
        IN  Succeeded(r) /\ r.name \in Operations =>
                /\ Len(dots) = Len(shown)
                /\ Len(closes) = Len(shown)
                /\ \A j \in 1..Len(shown) :
                       shown[j].title.t = "string" /\ Count(shown[j].title.v, "|") = 1 =>
                           SubSeq(t, dots[j] + 1, closes[j] - 1) = PageAndSection(shown[j].title.v)

WarningOf(name) ==
    CASE name = "query_strapi_docs" -> WarnQuery
      [] name = "get_strapi_best_practices" -> WarnBestPractices
      [] OTHER -> WarnTroubleshoot

HeadingOf(name) ==
    CASE name = "query_strapi_docs" -> HeadingQuery
      [] name = "get_strapi_best_practices" -> HeadingBestPractices
      [] OTHER -> HeadingTroubleshoot

\* C8: with is_uncertain true in the upstream payload the text of each of the
\* three operations holds that operation's warning exactly once, right
\* after the answer and before the source list; with is_uncertain absent or
\* false it holds no warning.
C8_WarningOnceAfterAnswer ==
    \A i \in Requests :
        LET r == req[i]
            t == Text(r)
            data == r.outcome.data
            answer == r.response.answer.v
            at == IndexOf(t, WarningOf(r.name))
        IN  Succeeded(r) /\ r.name \in Operations =>
                IF data.body = "object" /\ data.is_uncertain = True
                THEN /\ Count(t, WarningOf(r.name)) = 1
                     /\ at > Len(answer)
                     /\ SubSeq(t, at - Len(answer), at - 1) = answer
                     /\ \A p \in 1..Len(t) : t[p] \in {HeadingOf(r.name), ". ["} => p > at
                ELSE \A w \in {WarnQuery, WarnBestPractices, WarnTroubleshoot} : Count(t, w) = 0

\* An uncertain troubleshooting answer with a source list.
C8_Witness ==
    \E i \in Requests :
        /\ Succeeded(req[i])
        /\ req[i].name = "troubleshoot_strapi_issue"
        /\ req[i].outcome.data.is_uncertain = True
        /\ Contains(Text(req[i]), HeadingTroubleshoot)

\* C9: a payload without answer is normalized to the answer "No answer
\* available"; the answer of a normalized record is never undefined or
\* null, and the text of a successful operation shows it.
C9_AnswerNeverMissing ==
    \A i \in Requests :
        LET r == req[i]
            t == Text(r)
            data == r.outcome.data
            at == IF r.name = "query_strapi_docs" THEN 1 ELSE IndexOf(t, "**\n\n") + 1
        IN  Done(r) /\ r.name \in Operations /\ r.queried = "resolved" =>
                /\ data.body # "object" \/ data.answer.t = "undefined" =>
                       r.response.answer = Str(<<"No answer available">>)
                /\ r.response.answer.t \notin {"undefined", "null"}
                /\ Succeeded(r) =>
                       /\ t[at] \notin {"undefined", "null"}
                       /\ SubSeq(t, at, at + Len(r.response.answer.v) - 1) = r.response.answer.v

\* A documentation query answered without an answer field.
C9_Witness ==
    \E i \in Requests :
        /\ Succeeded(req[i])
        /\ req[i].name = "query_strapi_docs"
        /\ req[i].outcome.data.body = "object"
        /\ req[i].outcome.data.answer = Undef
        /\ Text(req[i])[1] = "No answer available"

\* C10: while KAPA_API_KEY or KAPA_PROJECT_ID is missing (unset or empty) the
\* process never gets past start-up: it is starting or has exited, the
\* server is not connected, no request is served and no POST is issued.
C10_NothingServedWithoutConfiguration ==
    (\E key \in Required : ~Present(env[key])) =>
        /\ phase \in {"boot", "exited"}
        /\ test = "none"
        /\ \A i \in Requests : req[i].pc = "idle" /\ req[i].posts = 0

\* The process halted at start-up on an empty KAPA_API_KEY.
C10_Witness ==
    /\ phase = "exited"
    /\ exitCause = "missing-env"
    /\ env.KAPA_API_KEY = Str(<<>>)
    /\ Present(env.KAPA_PROJECT_ID)

(***************************************************************************)
(* Independence of the requests in flight.                                 *)
(***************************************************************************)
\* What the host gets for a request, from the request's own name, arguments
\* and upstream outcome (and the configuration, which no request writes).
OwnResult(r) ==
    LET p == Prepare(r.name, r.args)
    IN  IF p.threw THEN Dispatched(p).result
        ELSE Dispatched(Finish(env, r.name, r.args, Query(r.outcome, BaseURL(env)))).result

\* C11: invocations are independent.  Whatever requests are in flight and
\* in whatever order their upstream responses arrive, a step of one request
\* leaves every other request as it was, the result of a request that
\* finishes is the one its own arguments and its own upstream response
\* determine, and a request that starts after another one returned starts
\* from nothing that the earlier one wrote.
C11_InvocationsIndependent ==
    [][\A i \in Requests :
          req'[i] # req[i] =>
            /\ \A j \in Requests \ {i} : req'[j] = req[j]
            /\ Done(req'[i]) => req'[i].result = OwnResult(req'[i])
            /\ req[i].pc = "idle" =>
                 /\ req[i] = Idle
                 /\ \E call \in FewCalls : req'[i] = Started(call[1], call[2])
            /\ env' = env]_vars

\* Two requests that were in flight finished with different upstream
\* answers: one shows its own answer and thread id, the other its own error.
C11_Witness ==
    /\ Done(req[1]) /\ Done(req[2])
    /\ req[1].name = "query_strapi_docs" /\ req[2].name = "get_strapi_best_practices"
    /\ req[1].outcome.kind = "2xx" /\ req[1].outcome.data.thread_id = Str(<<"thread-1">>)
    /\ req[2].outcome.kind = "timeout"
    /\ Includes(Text(req[1]), <<"thread-1">>)
    /\ Includes(Text(req[1]), Answer.v)
    /\ ~Includes(Text(req[2]), Answer.v)
    /\ req[2].result.isError = "true"

(***************************************************************************)
(* The three renderings of one normalized response.                        *)
(***************************************************************************)
\* What the handler of an operation renders for a normalized response.
Rendered(name, response) ==
    CASE name = "query_strapi_docs" -> FormatQueryStrapiDocs(response)
      [] name = "get_strapi_best_practices" -> FormatBestPractices(TopicArgs, response)
      [] OTHER -> FormatTroubleshoot(IssueArgs, response)

\* A rendered text without what the operations may differ in: the leading
\* heading (three chunks, none for the documentation query), the heading
\* of the source list, the wording of the warning, and the line breaks.
Pipeline(name, text) ==
    LET body == IF name = "query_strapi_docs" THEN text
                ELSE SubSeq(text, 4, Len(text))
        own(c) == c \notin {HeadingQuery, HeadingBestPractices, HeadingTroubleshoot,
                            WarnQuery, WarnBestPractices, WarnTroubleshoot, "\n"}
    IN  SelectSeq(body, own)

\* C12: for the same normalized response the three operations render texts
\* that differ only in the leading heading and in the wording of the
\* uncertainty warning: the sources shown, the title of each source and
\* the thread-id line are the same in all three.
C12_OneFormattingPipeline ==
    \A i \in Requests :
        Succeeded(req[i]) /\ req[i].name \in Operations =>
            \A other \in Operations :
                LET r == Rendered(other, req[i].response)
                IN  /\ ~r.threw
                    /\ Pipeline(other, r.value) = Pipeline(req[i].name, Text(req[i]))

(***************************************************************************)
(* The urls of the sources a text shows.                                   *)
(***************************************************************************)
\* The positions of text where the url of a source line begins.
Links(text) == {p \in 1..Len(text) : text[p] = "]("}

\* The url of the source line whose "](" stands at position p of text.
ShownUrl(text, p) == SubSeq(text, p + 1, IndexFrom(text, ")", p) - 1)

\* An absolute url of scheme http or https with something after the scheme.
WellFormedUrl(url) ==
    \/ Len(url) >= 3 /\ SubSeq(url, 1, 2) = <<"http", "://">>
    \/ Len(url) >= 4 /\ SubSeq(url, 1, 3) = <<"http", "s", "://">>

\* C13: in the text of every operation each source shown has a well-formed
\* absolute url of scheme http:// or https://; an entry whose url is "#" or
\* has no scheme is not shown, though the normalized record keeps it.
C13_ShownUrlsWellFormed ==
    \A i \in Requests :
        Succeeded(req[i]) /\ req[i].name \in Operations =>
            /\ \A p \in Links(Text(req[i])) :
                   WellFormedUrl(ShownUrl(Text(req[i]), p))
            /\ Len(req[i].response.sources) = Len(RawSources(req[i].outcome.data))

(***************************************************************************)
(* The four configuration values.                                          *)
(***************************************************************************)
Configuration == {"KAPA_API_KEY", "KAPA_PROJECT_ID", "KAPA_API_URL", "MCP_SERVER_NAME"}

Serving == phase \in {"constructed", "connected"}

\* The text of a request that could not reach the upstream names this url.
Unreachable(r, url) ==
    /\ r.result.isError = "true"
    /\ Includes(Text(r), <<"Network error: Unable to reach Kapa API at ">> \o url)

\* C14 as stated: each of the four configuration values is required at
\* start-up; with any one of them absent the process stops before it is
\* constructed, and no value is substituted later.
C14_AllFourRequired ==
    Serving => \A key \in Configuration : ~EnvMissing(env[key])

\* C14, amended: the credential and the project identifier are required
\* at start-up, and the process never gets past start-up without them; the
\* base url and the display name are optional: without them the server
\* starts all the same, talks to https://api.kapa.ai and announces itself
\* as strapi-docs, and with them it uses the configured values.
C14_TwoRequiredTwoDefaulted ==
    /\ Serving =>
         /\ \A key \in Required : ~EnvMissing(env[key])
         /\ ServerName(env) = (IF EnvMissing(env.MCP_SERVER_NAME)
                               THEN DefaultServerName ELSE env.MCP_SERVER_NAME.v)
         /\ exitCause = "none"
    /\ \A i \in Requests :
         Done(req[i]) /\ req[i].posts = 1
         /\ req[i].outcome.kind \in {"noresponse", "timeout"} =>
            Unreachable(req[i], IF EnvMissing(env.KAPA_API_URL)
                                THEN <<"http", "s", "://", "api.kapa.ai">>
                                ELSE env.KAPA_API_URL.v)

\* A server started without base url and display name serves a request; the
\* request times out and its text names the default url.
C14_Witness ==
    /\ phase = "connected"
    /\ env.KAPA_API_URL = Undef /\ env.MCP_SERVER_NAME = Undef
    /\ ServerName(env) = <<"strapi-docs">>
    /\ \E i \in Requests :
         /\ Done(req[i]) /\ req[i].outcome.kind = "timeout"
         /\ Unreachable(req[i], <<"http", "s", "://", "api.kapa.ai">>)

(***************************************************************************)
(* The query string a documentation query sends upstream.                  *)
(***************************************************************************)
\* s ends with part.
EndsWith(s, part) ==
    Len(s) >= Len(part) /\ SubSeq(s, Len(s) - Len(part) + 1, Len(s)) = part

\* C15: the query string query_strapi_docs sends upstream holds the
\* caller's query unmodified.  Without a context argument, or with an empty
\* one, it is the caller's query; with a context argument it is a context
\* line built from the caller's context, then the caller's query, and
\* nothing after the caller's query.
C15_QuerySentVerbatim ==
    \A i \in Requests :
        LET r == req[i]
            query == r.args.query.v
            before == SubSeq(r.sent.v, 1, Len(r.sent.v) - Len(query))
        IN  r.pc \in {"waiting", "done"} /\ r.name = "query_strapi_docs"
            /\ r.args.t = "object" /\ r.args.query.t = "string" =>
                /\ r.posts = 1
                /\ IF r.args.context \in {Undef, Str(<<>>)}
                   THEN r.sent = r.args.query
                   ELSE /\ r.sent.t = "string"
                        /\ EndsWith(r.sent.v, query)
                        /\ Head(before) = "Context: "
                        /\ Includes(before, r.args.context.v)

\* A documentation query with a context is suspended at its POST.
C15_Witness ==
    /\ req[1].pc = "waiting"
    /\ req[1].args = QueryContextArgs
    /\ req[1].sent =
         Str(<<"Context: ", "Strapi 5", "\n\nQuestion: ", "How do I add a field?">>)

(***************************************************************************)
(* Normalization, field by field.                                          *)
(***************************************************************************)
\* a when the payload carries it, else b.
FirstPresent(a, b) == IF a.t \in {"undefined", "null"} THEN b ELSE a

\* C16: normalization resolves each field by first-present-wins fallback.
\* The source sequence is raw.relevant_sources, else raw.sources, else
\* empty; the title of an entry is its title, else its name, else
\* "Documentation"; its url is its source_url, else its url, else "#"; its
\* snippet is its snippet, else its content, else its excerpt, else "".  A
\* payload with its citations under `sources` alone yields a normalized
\* record with those citations.
C16_FirstPresentWins ==
    \A i \in Requests :
        req[i].queried = "resolved" =>
            LET data == req[i].outcome.data
                list == IF Field(data, "relevant_sources").t = "array"
                        THEN data.relevant_sources.items
                        ELSE IF Field(data, "sources").t = "array"
                        THEN data.sources.items
                        ELSE <<>>
                sources == req[i].response.sources
            IN  /\ Len(sources) = Len(list)
                /\ \A k \in 1..Len(list) :
                     /\ sources[k].title =
                          FirstPresent(list[k].title,
                                       FirstPresent(list[k].name, Str(<<"Documentation">>)))
                     /\ sources[k].url =
                          FirstPresent(list[k].source_url,
                                       FirstPresent(list[k].url, Str(<<"#">>)))
                     /\ sources[k].snippet =
                          FirstPresent(list[k].snippet,
                            FirstPresent(list[k].content,
                              FirstPresent(list[k].excerpt, Str(<<>>))))

\* The numerals of the model, in tenths.
Tenths(x) ==
    CASE x.v = <<"0">> -> 0
      [] x.v = <<"0.5">> -> 5
      [] x.v = <<"0.8">> -> 8
      [] x.v = <<"0.9">> -> 9

\* C17: the normalized confidence is raw.confidence whenever the payload
\* carries a confidence, the value 0 included; otherwise it is 0.5 when
\* raw.is_uncertain is true and 0.8 when it is not; it lies in [0,1].
C17_ConfidenceKeptOrDefaulted ==
    \A i \in Requests :
        req[i].queried = "resolved" =>
            LET data == req[i].outcome.data
                confidence == req[i].response.confidence
            IN  /\ confidence =
                     (IF Field(data, "confidence").t = "number" THEN data.confidence
                      ELSE IF Field(data, "is_uncertain") = True THEN Num("0.5")
                      ELSE Num("0.8"))
                /\ confidence.t = "number"
                /\ Tenths(confidence) \in 0..10

\* The normalized entry whose fields are all defaults.
DefaultSource == [title |-> Str(DefaultTitle), url |-> Str(DefaultUrl), snippet |-> Str(<<>>)]

\* C18: normalization is total.  For every body of a 2xx response (empty
\* or null, a source field that is no sequence, a sequence holding a null
\* entry) the query resolves with a normalized record; the normalized
\* source sequence is as long as the upstream one and a malformed entry
\* stands in its place with its fields set to the defaults.
C18_NormalizationTotal ==
    \A i \in Requests :
        Done(req[i]) /\ req[i].posts = 1 /\ req[i].outcome.kind = "2xx" =>
            LET raw == RawSources(req[i].outcome.data)
                sources == req[i].response.sources
            IN  /\ req[i].queried = "resolved"
                /\ Len(sources) = Len(raw)
                /\ \A k \in 1..Len(raw) :
                     raw[k].t = "null" => sources[k] = DefaultSource

(***************************************************************************)
(* Upstream failures and the life of the process.                          *)
(***************************************************************************)
\* The causes that stop the process without any upstream call having
\* failed: the start-up conditions and the operator's interrupt.
StartupOrOperator == {"missing-env", "constructor-threw", "connect-failed", "sigint"}

\* C19: no upstream failure terminates the process.  When the POST of a
\* tool invocation or of the start-up connection test settles, however it
\* settles, the process stays in the phase it was in, no error leaves the
\* dispatcher or the start-up test, and the failure ends as a result or as
\* a log line; the process stops only for a start-up condition or an
\* interrupt; invocations are served whether or not the start-up test has
\* settled.
C19_UpstreamFailureNeverFatal ==
    [][/\ (\/ test = "inflight" /\ test' # "inflight"
           \/ \E i \in Requests : req[i].pc = "waiting" /\ req'[i] # req[i]) =>
            /\ phase' = phase
            /\ exitCause' = exitCause
            /\ test' \in {"inflight", "passed", "failed"}
            /\ \A i \in Requests : ~req'[i].escaped
       /\ phase' = "exited" => exitCause' \in StartupOrOperator
       /\ \A i \in Requests :
            req[i].pc = "idle" /\ req'[i].pc # "idle" =>
                phase = "connected" /\ test \in {"inflight", "passed", "failed"}]_vars

\* The start-up test is still in flight; one invocation met a timeout and
\* got its error result, another one was served after it.
C19_Witness ==
    /\ phase = "connected" /\ test = "inflight"
    /\ Done(req[1]) /\ req[1].outcome.kind = "timeout" /\ req[1].result.isError = "true"
    /\ Succeeded(req[2]) /\ req[2].outcome.kind = "2xx"

\* The start-up test failed on a 429 of the upstream; the server connected
\* and served an invocation.
C19_WitnessAfterFailedTest ==
    /\ phase = "connected" /\ test = "failed"
    /\ \E i \in Requests : Succeeded(req[i]) /\ req[i].outcome.kind = "2xx"

====
